---- MODULE Spec2Model ----
(***************************************************************************)
(* SecLint: the source splitter (preprocess/code_splitter.py), its caller  *)
(* reader (preprocess/code_getter.py), main (main.py) and the file watcher *)
(* (watcher_file.py).                                                      *)
(*                                                                         *)
(* A source text is a sequence of source items: each item is one top-level *)
(* statement as written (a few lines), a blank line, or a stretch of text  *)
(* the grammar rejects.  A text value (a chunk's code, global_vars) is the *)
(* sequence of its lines.                                                  *)
(***************************************************************************)
EXTENDS Integers, Sequences, FiniteSets, TLC

VARIABLES
    code,         \* split_code: argument code
    file_name,    \* split_code: argument file_name
    pc,           \* split_code: position in the function body
    tree,         \* split_code: tree.body
    idx,          \* split_code: number of nodes the for loop has taken
    node,         \* split_code: index in tree of the node bound to `node` (0: unbound)
    heap,         \* the chunk dictionaries made by deepcopy, in allocation order
    chunk,        \* split_code: index in heap of the object bound to `chunk` (0: unbound)
    slices,       \* split_code: the list `slices`, as indices into heap
    global_vars,  \* split_code: the string global_vars, as its lines
    stdout,       \* what print() wrote during the call
    ret,          \* how the call ended: nothing yet, a returned list, or an exception
    files,        \* the watched directory: path -> content, or Missing
    queue,        \* file system events the observer has not dispatched yet
    wpc,          \* the observer's dispatch thread: where it is in on_any_event/main/reader
    event,        \* on_any_event: the event being handled
    log,          \* what logger() was called with since the handler took the event
    main_code_chunks,  \* main: the value reader(file_path) returned
    scanned,      \* the arguments of the code_scanner calls since the handler took the event
    runs,         \* how often main and split_code were entered since the handler took the event
    read,         \* reader: the content file.read() returned
    history,      \* the finished split_code calls: arguments and outcome
    fsops         \* number of file system operations so far

splitVars == <<code, file_name, pc, tree, idx, node, heap, chunk, slices,
               global_vars, stdout, ret>>
watchVars == <<files, queue, wpc, event, log, main_code_chunks, scanned, runs, read,
               history, fsops>>
vars == <<splitVars, watchVars>>

-----------------------------------------------------------------------------
(* Bounds *)

MaxBody == 3
MaxFsOps == 3

-----------------------------------------------------------------------------
(* Values *)

None == "None"
NoCode == <<>>
NoLine == -1

\* l.strip() is truthy
NotBlankLine(l) == l # "" /\ l # "    "

RECURSIVE clean_code(_)
\* "\n".join(l for l in code_chunk.splitlines() if l.strip())
clean_code(code_chunk) ==
    IF code_chunk = <<>> THEN <<>>
    ELSE IF NotBlankLine(Head(code_chunk))
         THEN <<Head(code_chunk)>> \o clean_code(Tail(code_chunk))
         ELSE clean_code(Tail(code_chunk))

-----------------------------------------------------------------------------
(* The syntax of the test of an If statement *)

NameExpr(id) == [kind |-> "Name", value |-> id]
ConstExpr(v) == [kind |-> "Constant", value |-> v]
NoTest == [kind |-> "None", left |-> NameExpr(None), ops |-> <<>>, comparators |-> <<>>]
Compare(l, ops, cs) == [kind |-> "Compare", left |-> l, ops |-> ops, comparators |-> cs]
BoolOp(l, ops, cs) == [kind |-> "BoolOp", left |-> l, ops |-> ops, comparators |-> cs]

-----------------------------------------------------------------------------
(* The top-level statements the inputs are made of.  For each: the class   *)
(* of its node, its name, the lines as written (what get_source_segment    *)
(* returns), the offset of node.lineno from the first line of the item     *)
(* (decorators come before the def line), and what ast.unparse re-emits.   *)

Stmt(type, name, loff, segment, unparsed, test) ==
    [type |-> type, name |-> name, loff |-> loff, segment |-> segment,
     unparsed |-> unparsed, test |-> test]

Statements ==
    [def |-> Stmt("FunctionDef", "f", 0,
                  <<"def f( ):", "", "  return 1">>,
                  <<"def f():", "    return 1">>, NoTest),
     adef |-> Stmt("AsyncFunctionDef", "g", 1,
                  <<"@d", "async def g(): pass">>,
                  <<"@d", "async def g():", "    pass">>, NoTest),
     class |-> Stmt("ClassDef", "A", 0,
                  <<"class A:", "  x=1", "  def m(self): pass">>,
                  <<"class A:", "    x = 1", "", "    def m(self):", "        pass">>, NoTest),
     import |-> Stmt("Import", None, 0,
                  <<"import  os">>, <<"import os">>, NoTest),
     from |-> Stmt("ImportFrom", None, 0,
                  <<"from a import (b,", "  c)">>, <<"from a import b, c">>, NoTest),
     assign |-> Stmt("Assign", None, 0,
                  <<"x=1">>, <<"x = 1">>, NoTest),
     ann |-> Stmt("AnnAssign", None, 0,
                  <<"y: int = 2">>, <<"y: int = 2">>, NoTest),
     aug |-> Stmt("AugAssign", None, 0,
                  <<"x += 1">>, <<"x += 1">>, NoTest),
     global |-> Stmt("Global", None, 0,
                  <<"global x">>, <<"global x">>, NoTest),
     main |-> Stmt("If", None, 0,
                  <<"if __name__ == \"__main__\":", "", "    run()">>,
                  <<"if __name__ == '__main__':", "    run()">>,
                  Compare(NameExpr("__name__"), <<"Eq">>, <<ConstExpr("__main__")>>)),
     main_ne |-> Stmt("If", None, 0,
                  <<"if __name__ != \"__main__\":", "    lib()">>,
                  <<"if __name__ != '__main__':", "    lib()">>,
                  Compare(NameExpr("__name__"), <<"NotEq">>, <<ConstExpr("__main__")>>)),
     main_rev |-> Stmt("If", None, 0,
                  <<"if \"__main__\" == __name__:", "    run()">>,
                  <<"if '__main__' == __name__:", "    run()">>,
                  Compare(ConstExpr("__main__"), <<"Eq">>, <<NameExpr("__name__")>>)),
     main_and |-> Stmt("If", None, 0,
                  <<"if __name__ == \"__main__\" and extra:", "    run()">>,
                  <<"if __name__ == '__main__' and extra:", "    run()">>,
                  BoolOp(NameExpr("__name__"), <<"And">>, <<ConstExpr("__main__"), NameExpr("extra")>>)),
     main_chain |-> Stmt("If", None, 0,
                  <<"if __name__ == \"__main__\" == y:", "    run()">>,
                  <<"if __name__ == '__main__' == y:", "    run()">>,
                  Compare(NameExpr("__name__"), <<"Eq", "Eq">>,
                          <<ConstExpr("__main__"), NameExpr("y")>>)),
     if_other |-> Stmt("If", None, 0,
                  <<"if name == \"__main__\":", "    run()">>,
                  <<"if name == '__main__':", "    run()">>,
                  Compare(NameExpr("name"), <<"Eq">>, <<ConstExpr("__main__")>>)),
     expr |-> Stmt("Expr", None, 0,
                  <<"print(1)">>, <<"print(1)">>, NoTest)]

StatementIds == DOMAIN Statements
Blank == "blank"      \* an empty line between statements
Bad == "bad"          \* text the grammar rejects, e.g. "def f(:"
Items == StatementIds \cup {Blank, Bad}

ItemHeight(it) == IF it \in StatementIds THEN Len(Statements[it].segment) ELSE 1

RECURSIVE SeqsUpTo(_, _)
SeqsUpTo(S, n) ==
    IF n = 0 THEN {<<>>}
    ELSE LET shorter == SeqsUpTo(S, n - 1)
         IN  shorter \cup {Append(s, x) : s \in {t \in shorter : Len(t) = n - 1}, x \in S}

Texts == SeqsUpTo(Items, MaxBody)
FileNames == {<<"a", ".py">>, <<"b", ".js">>}

-----------------------------------------------------------------------------
(* ast.parse *)

RECURSIVE ParseFrom(_, _)
\* the nodes of the items of `text`, the first of which starts on line `line`
ParseFrom(text, line) ==
    IF text = <<>> THEN <<>>
    ELSE LET it == Head(text)
             rest == ParseFrom(Tail(text), line + ItemHeight(it))
         IN  IF it \in StatementIds
             THEN LET s == Statements[it]
                  IN  <<[type |-> s.type, name |-> s.name,
                         lineno |-> line + s.loff,
                         end_lineno |-> line + Len(s.segment) - 1,
                         segment |-> s.segment, unparsed |-> s.unparsed,
                         test |-> s.test, item |-> it]>> \o rest
             ELSE rest

SyntaxValid(text) == \A k \in 1..Len(text) : text[k] # Bad

\* a parser that recovers from errors: it drops what the grammar rejects
ast_parse_recovering(text) == [ok |-> TRUE, body |-> ParseFrom(text, 1)]

\* tree = ast.parse(code): the body, or SyntaxError
ast_parse(text) ==
    IF SyntaxValid(text)
    THEN [ok |-> TRUE, body |-> ParseFrom(text, 1)]
    ELSE [ok |-> FALSE, body |-> <<>>]

-----------------------------------------------------------------------------
(* split_code *)

code_chunks(fname) ==
    [metadata |-> [name |-> None, type |-> None, file_name |-> fname],
     start_line |-> NoLine,
     end_line |-> NoLine,
     code |-> NoCode]

NoRet == [kind |-> "none", value |-> <<>>]

CurNode == tree[idx + 1]

IsDeclaration(n) == n.type \in {"FunctionDef", "AsyncFunctionDef", "ClassDef"}
IsImport(n) == n.type = "Import" \/ n.type = "ImportFrom"
IsBinding(n) == n.type \in {"Assign", "AnnAssign", "AugAssign", "Global"}
IsEntryPoint(n) ==
    /\ n.type = "If"
    /\ n.test.kind = "Compare"
    /\ n.test.left.kind = "Name"
    /\ n.test.left.value = "__name__"
    /\ Len(n.test.comparators) = 1
    /\ n.test.comparators[1].kind = "Constant"
    /\ n.test.comparators[1].value = "__main__"

\* the loop body with slices.insert(0, chunk) for slices.append(chunk)
LoopBody_insert_front(filled, gv, out) ==
    /\ pc = "loop"
    /\ idx < Len(tree)
    /\ heap' = Append(heap, filled)
    /\ chunk' = Len(heap) + 1
    /\ slices' = IF filled.code # NoCode THEN <<Len(heap) + 1>> \o slices ELSE slices
    /\ global_vars' = gv
    /\ stdout' = out
    /\ idx' = idx + 1
    /\ node' = idx + 1
    /\ UNCHANGED <<code, file_name, pc, tree, ret, watchVars>>

\* one pass of the for loop: chunk = deepcopy(code_chunks), the branch's
\* assignments to it, and the closing `if chunk["code"] is not None: append`
LoopBody(filled, gv, out) ==
    /\ pc = "loop"
    /\ idx < Len(tree)
    /\ heap' = Append(heap, filled)
    /\ chunk' = Len(heap) + 1
    /\ slices' = IF filled.code # NoCode THEN Append(slices, Len(heap) + 1) ELSE slices
    /\ global_vars' = gv
    /\ stdout' = out
    /\ idx' = idx + 1
    /\ node' = idx + 1
    /\ UNCHANGED <<code, file_name, pc, tree, ret, watchVars>>

\* split_code with global_vars kept at module level: a call starts with the
\* lines the previous call left in it
Parse_module_level_global_vars ==
    /\ pc = "parse"
    /\ LET t == ast_parse(code)
       IN  IF t.ok
           THEN /\ tree' = t.body
                /\ pc' = "loop"
                /\ UNCHANGED ret
           ELSE /\ tree' = <<>>
                /\ pc' = "raised"
                /\ ret' = [kind |-> "SyntaxError", value |-> <<>>]
    /\ slices' = <<>>
    /\ UNCHANGED <<code, file_name, idx, node, heap, chunk, stdout, global_vars, watchVars>>

Parse ==
    /\ pc = "parse"
    /\ LET t == ast_parse(code)
       IN  IF t.ok
           THEN /\ tree' = t.body
                /\ pc' = "loop"
                /\ UNCHANGED ret
           ELSE /\ tree' = <<>>
                /\ pc' = "raised"
                /\ ret' = [kind |-> "SyntaxError", value |-> <<>>]
    /\ slices' = <<>>
    /\ global_vars' = <<>>
    /\ UNCHANGED <<code, file_name, idx, node, heap, chunk, stdout, watchVars>>

Declaration ==
    /\ pc = "loop" /\ idx < Len(tree)
    /\ IsDeclaration(CurNode)
    /\ LoopBody([metadata |-> [name |-> CurNode.name, type |-> CurNode.type],
                 start_line |-> CurNode.lineno,
                 end_line |-> CurNode.end_lineno,
                 code |-> clean_code(CurNode.unparsed)],
                global_vars, stdout)

ImportStmt ==
    /\ pc = "loop" /\ idx < Len(tree)
    /\ ~IsDeclaration(CurNode)
    /\ IsImport(CurNode)
    /\ LoopBody([metadata |-> [name |-> CurNode.type, type |-> CurNode.type],
                 start_line |-> CurNode.lineno,
                 end_line |-> CurNode.end_lineno,
                 code |-> CurNode.segment],
                global_vars, stdout)

Binding ==
    /\ pc = "loop" /\ idx < Len(tree)
    /\ ~IsDeclaration(CurNode) /\ ~IsImport(CurNode)
    /\ IsBinding(CurNode)
    /\ LoopBody(code_chunks(file_name), global_vars \o CurNode.segment, stdout)

EntryPoint ==
    /\ pc = "loop" /\ idx < Len(tree)
    /\ ~IsDeclaration(CurNode) /\ ~IsImport(CurNode) /\ ~IsBinding(CurNode)
    /\ IsEntryPoint(CurNode)
    /\ LoopBody([metadata |-> [name |-> CurNode.type, type |-> CurNode.type],
                 start_line |-> CurNode.lineno,
                 end_line |-> CurNode.end_lineno,
                 code |-> clean_code(CurNode.unparsed)],
                global_vars, stdout)

Skip ==
    /\ pc = "loop" /\ idx < Len(tree)
    /\ ~IsDeclaration(CurNode) /\ ~IsImport(CurNode) /\ ~IsBinding(CurNode)
    /\ ~IsEntryPoint(CurNode)
    /\ LoopBody(code_chunks(file_name), global_vars, Append(stdout, CurNode.type))

\* `if global_vars:` after the loop, on whatever object `chunk` is bound to
FlushGlobalVars ==
    /\ pc = "loop"
    /\ idx = Len(tree)
    /\ heap' = IF global_vars # <<>>
               THEN [heap EXCEPT ![chunk] =
                        [metadata |-> [name |-> tree[node].type,
                                       type |-> "Gloal variable or assignment"],
                         start_line |-> 0,
                         end_line |-> 0,
                         code |-> global_vars]]
               ELSE heap
    /\ pc' = "return"
    /\ UNCHANGED <<code, file_name, tree, idx, node, chunk, slices, global_vars,
                   stdout, ret, watchVars>>

Deref(h, refs) == [k \in 1..Len(refs) |-> h[refs[k]]]

\* return slices
Return ==
    /\ pc = "return"
    /\ ret' = [kind |-> "value", value |-> Deref(heap, slices)]
    /\ pc' = "done"
    /\ UNCHANGED <<code, file_name, tree, idx, node, heap, chunk, slices,
                   global_vars, stdout, watchVars>>

-----------------------------------------------------------------------------
(* The watched directory and the observer (watcher_file.py), main (main.py) *)
(* and reader (preprocess/code_getter.py).  A path is <<directory, stem,    *)
(* extension>>.                                                             *)

Missing == <<"missing">>
Paths == {<<"src", "a", ".py">>, <<"lib", "a", ".py">>, <<"src", "b", ".js">>,
          <<"src", "c", ".txt">>}
FileContents == {<<>>, <<"def">>, <<"assign">>, <<Bad>>, <<"import", "main", "expr">>}

\* os.path.basename
basename(path) == <<path[2], path[3]>>
\* src_path.endswith(suffix)
endswith(path, suffix) == path[3] = suffix

PyNone == [kind |-> "none", value |-> <<>>]
\* `if code_chunks:`
Truthy(v) == v.kind = "value" /\ v.value # <<>>

NoEvent == [event_type |-> None, src_path |-> <<None, None, None>>]
NoRuns == [main |-> 0, split_code |-> 0]

Qualifies(e) ==
    /\ e.event_type = "modified" \/ e.event_type = "created"
    /\ endswith(e.src_path, ".py") \/ endswith(e.src_path, ".js")

\* a program writes a file in the watched directory
FsWrite ==
    /\ fsops < MaxFsOps
    /\ \E p \in Paths, text \in FileContents :
         /\ files' = [files EXCEPT ![p] = text]
         /\ queue' = Append(queue, [event_type |-> IF files[p] = Missing THEN "created"
                                                   ELSE "modified",
                                    src_path |-> p])
    /\ fsops' = fsops + 1
    /\ UNCHANGED <<splitVars, wpc, event, log, main_code_chunks, scanned, runs, read, history>>

\* a program deletes a file in the watched directory
FsDelete ==
    /\ fsops < MaxFsOps
    /\ \E p \in Paths :
         /\ files[p] # Missing
         /\ files' = [files EXCEPT ![p] = Missing]
         /\ queue' = Append(queue, [event_type |-> "deleted", src_path |-> p])
    /\ fsops' = fsops + 1
    /\ UNCHANGED <<splitVars, wpc, event, log, main_code_chunks, scanned, runs, read, history>>

\* EventHandler.on_any_event, the condition holds: log and call main
OnAnyEvent ==
    /\ wpc = "idle"
    /\ queue # <<>>
    /\ Qualifies(Head(queue))
    /\ event' = Head(queue)
    /\ queue' = Tail(queue)
    /\ log' = <<"File detected">>
    /\ scanned' = <<>>
    /\ runs' = NoRuns
    /\ main_code_chunks' = PyNone
    /\ read' = Missing
    /\ wpc' = "main"
    /\ UNCHANGED <<splitVars, files, history, fsops>>

\* EventHandler.on_any_event, the condition fails: nothing happens
OnAnyEventIgnored ==
    /\ wpc = "idle"
    /\ queue # <<>>
    /\ ~Qualifies(Head(queue))
    /\ event' = Head(queue)
    /\ queue' = Tail(queue)
    /\ log' = <<>>
    /\ scanned' = <<>>
    /\ runs' = NoRuns
    /\ main_code_chunks' = PyNone
    /\ read' = Missing
    /\ UNCHANGED <<splitVars, files, wpc, history, fsops>>

\* main(file_path) up to the call of reader
Main ==
    /\ wpc = "main"
    /\ log' = Append(log, "Starting the application...")
    /\ runs' = [runs EXCEPT !.main = @ + 1]
    /\ wpc' = "reader"
    /\ UNCHANGED <<splitVars, files, queue, event, main_code_chunks, scanned, read,
                   history, fsops>>

\* reader: open, read, basename, log, and the call split_code(content, file_name)
Reader ==
    /\ wpc = "reader"
    /\ files[event.src_path] # Missing
    /\ read' = files[event.src_path]
    /\ log' = Append(log, "Chunking code from")
    /\ runs' = [runs EXCEPT !.split_code = @ + 1]
    /\ code' = files[event.src_path]
    /\ file_name' = basename(event.src_path)
    /\ pc' = "parse"
    /\ tree' = <<>>
    /\ idx' = 0
    /\ node' = 0
    /\ heap' = <<>>
    /\ chunk' = 0
    /\ stdout' = <<>>
    /\ ret' = NoRet
    /\ wpc' = "split_code"
    /\ UNCHANGED <<slices, global_vars, files, queue, event, main_code_chunks, scanned,
                   history, fsops>>

\* reader: open raises FileNotFoundError; the handler logs and reader returns None
ReaderFileNotFound ==
    /\ wpc = "reader"
    /\ files[event.src_path] = Missing
    /\ log' = Append(log, "File not found")
    /\ main_code_chunks' = PyNone
    /\ wpc' = "main_if"
    /\ UNCHANGED <<splitVars, files, queue, event, scanned, runs, read, history, fsops>>

\* reader: split_code returned; log the count; the function ends without a
\* return statement, so the call reader(file_path) evaluates to None
ReaderSplitReturned ==
    /\ wpc = "split_code"
    /\ pc = "done"
    /\ log' = Append(log, "Code split into chunks")
    /\ history' = Append(history, [code |-> code, file_name |-> file_name, ret |-> ret])
    /\ main_code_chunks' = PyNone
    /\ wpc' = "main_if"
    /\ UNCHANGED <<splitVars, files, queue, event, scanned, runs, read, fsops>>

\* reader: split_code raised; `except Exception` logs and reader returns None
ReaderException ==
    /\ wpc = "split_code"
    /\ pc = "raised"
    /\ log' = Append(log, "An error occurred")
    /\ history' = Append(history, [code |-> code, file_name |-> file_name, ret |-> ret])
    /\ main_code_chunks' = PyNone
    /\ wpc' = "main_if"
    /\ UNCHANGED <<splitVars, files, queue, event, scanned, runs, read, fsops>>

\* main after reader returned: `if code_chunks:` and its two branches
MainIf ==
    /\ wpc = "main_if"
    /\ IF Truthy(main_code_chunks)
       THEN /\ log' = log \o <<"Successfully processed", "Starting vulnerability scanning...">>
            /\ scanned' = Append(scanned, main_code_chunks.value)
       ELSE /\ log' = log \o <<"No code chunks were processed.", "Exiting the application...">>
            /\ scanned' = scanned
    /\ wpc' = "idle"
    /\ UNCHANGED <<splitVars, files, queue, event, main_code_chunks, runs, read, history, fsops>>

-----------------------------------------------------------------------------
(* One call split_code(code, file_name), for every text and file name *)

WatchIdle ==
    /\ files = [p \in Paths |-> Missing]
    /\ queue = <<>>
    /\ wpc = "idle"
    /\ event = NoEvent
    /\ log = <<>>
    /\ main_code_chunks = PyNone
    /\ scanned = <<>>
    /\ runs = NoRuns
    /\ read = Missing
    /\ history = <<>>
    /\ fsops = 0

Init ==
    /\ code \in Texts
    /\ file_name \in FileNames
    /\ pc = "parse"
    /\ tree = <<>>
    /\ idx = 0
    /\ node = 0
    /\ heap = <<>>
    /\ chunk = 0
    /\ slices = <<>>
    /\ global_vars = <<>>
    /\ stdout = <<>>
    /\ ret = NoRet
    /\ WatchIdle

Next ==
    \/ Parse
    \/ Declaration
    \/ ImportStmt
    \/ Binding
    \/ EntryPoint
    \/ Skip
    \/ FlushGlobalVars
    \/ Return

Spec == Init /\ [][Next]_vars

-----------------------------------------------------------------------------
(* The watcher: files are written and deleted while the observer's thread  *)
(* dispatches the events one at a time                                     *)

InitWatch ==
    /\ code = <<>>
    /\ file_name = <<None, None>>
    /\ pc = "idle"
    /\ tree = <<>>
    /\ idx = 0
    /\ node = 0
    /\ heap = <<>>
    /\ chunk = 0
    /\ slices = <<>>
    /\ global_vars = <<>>
    /\ stdout = <<>>
    /\ ret = NoRet
    /\ WatchIdle

NextWatch ==
    \/ FsWrite
    \/ FsDelete
    \/ OnAnyEvent
    \/ OnAnyEventIgnored
    \/ Main
    \/ Reader
    \/ ReaderFileNotFound
    \/ ReaderSplitReturned
    \/ ReaderException
    \/ MainIf
    \/ Parse
    \/ Declaration
    \/ ImportStmt
    \/ Binding
    \/ EntryPoint
    \/ Skip
    \/ FlushGlobalVars
    \/ Return

SpecWatch == InitWatch /\ [][NextWatch]_vars

-----------------------------------------------------------------------------
(* Properties of one call of split_code, stated on the input and on what   *)
(* the call returned                                                       *)

DeclarationTypes == {"FunctionDef", "AsyncFunctionDef", "ClassDef"}
ImportTypes == {"Import", "ImportFrom"}
BindingTypes == {"Assign", "AnnAssign", "AugAssign", "Global"}

Returned == ret.value
Finished == pc = "done" /\ ret.kind = "value"

IsDeclarationChunk(c) == c.metadata.type \in DeclarationTypes
IsEntryPointChunk(c) == c.metadata.type = "If"
IsInOrderChunk(c) == IsDeclarationChunk(c) \/ IsEntryPointChunk(c)

RECURSIVE SegmentsOfTypes(_, _)
\* the lines as written of the statements of the given classes, in source order
SegmentsOfTypes(body, types) ==
    IF body = <<>> THEN <<>>
    ELSE (IF Head(body).type \in types THEN Head(body).segment ELSE <<>>)
         \o SegmentsOfTypes(Tail(body), types)

HasType(body, types) == \E k \in DOMAIN body : body[k].type \in types
OnlyTypes(body, types) == body # <<>> /\ \A k \in DOMAIN body : body[k].type \in types

\* the returned sequence has exactly one chunk of the given name, with span
\* (0,0), holding `text`, after every declaration and entry-point chunk
OneAggregate(R, name, text) ==
    LET A == {j \in DOMAIN R : R[j].metadata.name = name}
    IN  /\ Cardinality(A) = 1
        /\ \A j \in A :
             /\ R[j].start_line = 0
             /\ R[j].end_line = 0
             /\ R[j].code = text
             /\ \A i \in DOMAIN R : IsInOrderChunk(R[i]) => i < j

\* C1: if some top-level statement is a binding, the returned sequence has
\* exactly one chunk named "Global variables", with span (0,0), whose code is
\* all binding statements in source order, placed after every declaration and
\* entry-point chunk; a text of assignments only returns exactly one chunk.
C1_GlobalVariablesChunk ==
    (Finished /\ HasType(tree, BindingTypes)) =>
        /\ OneAggregate(Returned, "Global variables", SegmentsOfTypes(tree, BindingTypes))
        /\ OnlyTypes(tree, BindingTypes) => Len(Returned) = 1

\* C2: if some top-level statement is an import, the returned sequence has
\* exactly one chunk named "Imports", with span (0,0), holding all import
\* statements in source order, after every declaration and entry-point chunk;
\* imports never give one chunk each, so two imports and a class give exactly
\* two chunks, the class first.
C2_ImportsChunk ==
    (Finished /\ HasType(tree, ImportTypes)) =>
        /\ OneAggregate(Returned, "Imports", SegmentsOfTypes(tree, ImportTypes))
        /\ \A j \in DOMAIN Returned : Returned[j].metadata.type \notin ImportTypes
        /\ (Len(tree) = 3 /\ tree[1].type \in ImportTypes /\ tree[2].type \in ImportTypes
              /\ tree[3].type = "ClassDef")
             => Len(Returned) = 2 /\ Returned[1].metadata.type = "ClassDef"

\* the chunk the loop builds for a declaration or an entry-point block
IsChunkOf(c, n) ==
    /\ c.code = clean_code(n.unparsed)
    /\ c.start_line = n.lineno
    /\ c.end_line = n.end_lineno
    /\ c.metadata.type = n.type

RECURSIVE IsSubText(_, _)
\* the lines of `part` occur consecutively in `text`
IsSubText(part, text) ==
    IF Len(part) > Len(text) THEN FALSE
    ELSE \/ SubSeq(text, 1, Len(part)) = part
         \/ IsSubText(part, Tail(text))

\* C3: no statement is lost: every declaration and every block classified as
\* the entry point is present as its own chunk in the returned sequence, every
\* binding and every import statement is in the code of a returned chunk, and
\* every other statement has its diagnostic.
C3_Completeness ==
    Finished =>
        /\ \A k \in DOMAIN tree :
             LET n == tree[k]
             IN  /\ (IsDeclaration(n) \/ IsEntryPoint(n))
                      => \E j \in DOMAIN Returned : IsChunkOf(Returned[j], n)
                 /\ (IsBinding(n) \/ IsImport(n))
                      => \E j \in DOMAIN Returned : IsSubText(n.segment, Returned[j].code)
        /\ Len(stdout) = Cardinality({k \in DOMAIN tree :
               ~IsDeclaration(tree[k]) /\ ~IsImport(tree[k]) /\ ~IsBinding(tree[k])
               /\ ~IsEntryPoint(tree[k])})

\* the test is exactly  __name__ == "__main__"
ExactMainTest(t) ==
    /\ t.kind = "Compare"
    /\ t.left = NameExpr("__name__")
    /\ t.ops = <<"Eq">>
    /\ t.comparators = <<ConstExpr("__main__")>>

\* C4: a top-level If the loop has taken got a chunk appended to slices if and
\* only if its test is exactly the comparison __name__ == "__main__" (left
\* operand the identifier, one operator, equality, one comparator, the string
\* literal); every other If produced no chunk.
C4_EntryPointExactMatch ==
    pc = "loop" =>
        \A k \in 1..idx :
            tree[k].type = "If" =>
                ((\E j \in DOMAIN slices : slices[j] = k /\ heap[k].code # NoCode)
                     <=> ExactMainTest(tree[k].test))

\* C5: the declaration and entry-point chunks of the returned sequence are in
\* source order: of two such chunks the earlier one comes from a statement
\* that is earlier in the body and starts on an earlier line.
C5_SourceOrder ==
    Finished =>
        \A i, j \in DOMAIN Returned :
            (i < j /\ IsInOrderChunk(Returned[i]) /\ IsInOrderChunk(Returned[j])) =>
                /\ Returned[i].start_line < Returned[j].start_line
                /\ \E a, b \in DOMAIN tree :
                     /\ a < b
                     /\ IsChunkOf(Returned[i], tree[a])
                     /\ IsChunkOf(Returned[j], tree[b])

\* C5 witness: a call returned a declaration chunk and an entry-point chunk
\* after a text that also holds a binding.
C5_Witness ==
    /\ Finished
    /\ HasType(tree, BindingTypes)
    /\ \E i, j \in DOMAIN Returned :
         i # j /\ IsDeclarationChunk(Returned[i]) /\ IsEntryPointChunk(Returned[j])

\* C6: every returned chunk carries the file name the call was given.
C6_FileNameOnEveryChunk ==
    Finished =>
        \A j \in DOMAIN Returned :
            /\ "file_name" \in DOMAIN Returned[j].metadata
            /\ Returned[j].metadata.file_name = file_name

\* C7: every returned declaration or entry-point chunk has start_line <=
\* end_line, both as the parser reported for the node whose code it holds;
\* every other returned chunk (imports, bindings) is an aggregate with span
\* (0,0) and non-empty code; span (0,0) occurs on aggregates only.
C7_Spans ==
    Finished =>
        \A j \in DOMAIN Returned :
            LET c == Returned[j]
            IN  IF IsInOrderChunk(c)
                THEN /\ c.start_line <= c.end_line
                     /\ c.start_line >= 1
                     /\ \E k \in DOMAIN tree : IsChunkOf(c, tree[k])
                ELSE /\ c.start_line = 0
                     /\ c.end_line = 0
                     /\ c.code # <<>>

\* C8: a call on a text the grammar rejects ends in the parse error with no
\* statement classified, no chunk made, nothing printed and nothing returned,
\* and never gets past parsing; a call on the empty text returns the empty
\* sequence.
C8_AllOrNothing ==
    /\ ~SyntaxValid(code) =>
         /\ pc \in {"parse", "raised"}
         /\ idx = 0 /\ heap = <<>> /\ slices = <<>> /\ stdout = <<>>
         /\ ret.value = <<>>
         /\ pc = "raised" <=> ret.kind = "SyntaxError"
    /\ SyntaxValid(code) => pc # "raised" /\ ret.kind # "SyntaxError"
    /\ (code = <<>> /\ pc \notin {"parse", "loop", "return"}) =>
         /\ pc = "done"
         /\ ret = [kind |-> "value", value |-> <<>>]

\* C8 witness: the call raised on a text whose first statement is a valid
\* declaration and whose second item is rejected by the grammar.
C8_Witness ==
    /\ pc = "raised"
    /\ Len(code) >= 2
    /\ code[1] = "def"
    /\ code[2] = Bad

-----------------------------------------------------------------------------
(* Properties of the watcher's run *)

Logged(msg) == \E k \in DOMAIN log : log[k] = msg
Handled == wpc = "idle" /\ Qualifies(event)

\* C9: any two finished calls of split_code with the same code and file_name
\* ended the same way with the same chunk sequence, whatever calls came
\* before or between them.
C9_Determinism ==
    \A i, j \in DOMAIN history :
        (history[i].code = history[j].code /\ history[i].file_name = history[j].file_name)
            => history[i].ret = history[j].ret

\* C9 witness: three calls finished; the first and the third had the same
\* arguments and returned chunks, the second had a different text.
C9_Witness ==
    /\ Len(history) >= 3
    /\ history[1].code = history[3].code
    /\ history[1].file_name = history[3].file_name
    /\ history[2].code # history[1].code
    /\ history[1].ret.kind = "value"
    /\ history[1].ret.value # <<>>

\* C10: when the handler is through with a created or modified event on a
\* .py or .js path, main ran once and, the file being readable, split_code ran
\* once on the content read; if that call returned at least one chunk, main
\* logged 'Successfully processed' and called code_scanner with those chunks;
\* it logged 'No code chunks were processed.' only if the call failed, did
\* not happen, or returned no chunks.
C10_HandOff ==
    Handled =>
        /\ runs.main = 1
        /\ read # Missing => runs.split_code = 1 /\ code = read
        /\ (runs.split_code = 1 /\ ret.kind = "value" /\ ret.value # <<>>)
             => Logged("Successfully processed") /\ scanned = <<ret.value>>
        /\ Logged("No code chunks were processed.")
             => (runs.split_code = 0 \/ ret.kind = "SyntaxError" \/ ret.value = <<>>)

-----------------------------------------------------------------------------
(* The end-of-pass flush *)

\* C11: the step after the loop (the flush of global_vars) leaves every chunk
\* already appended to slices as it was: same code, start_line, end_line, name
\* and type, wherever the binding statements stand relative to the last
\* top-level statement.
C11_FlushKeepsAppendedChunks ==
    [][(pc = "loop" /\ idx = Len(tree) /\ pc' = "return") =>
          \A j \in DOMAIN slices :
              /\ heap'[slices[j]].code = heap[slices[j]].code
              /\ heap'[slices[j]].start_line = heap[slices[j]].start_line
              /\ heap'[slices[j]].end_line = heap[slices[j]].end_line
              /\ heap'[slices[j]].metadata.name = heap[slices[j]].metadata.name
              /\ heap'[slices[j]].metadata.type = heap[slices[j]].metadata.type]_vars

====
